---- MODULE Spec2Model ----
(***************************************************************************)
(* Rendering of completion candidates into completion items                *)
(* (crates/ra_ide/src/completion/presentation.rs).                         *)
(*                                                                         *)
(* A string is a sequence of characters, each character a one-element      *)
(* TLA+ string; the character U+2026 (horizontal ellipsis) is written      *)
(* "U+2026".  Option<T> is a sequence of length 0 (None) or 1 (Some).      *)
(***************************************************************************)
EXTENDS Integers, Sequences, FiniteSets, TLC

VARIABLES db, ctx, buf, offered

vars == <<db, ctx, buf, offered>>

(* The largest number of candidates offered in one completion request. *)
MaxOffered == 2

None == <<>>

Some(x) == <<x>>

is_some(o) == Len(o) = 1

is_none(o) == Len(o) = 0

unwrap(o) == o[1]

Ellipsis == "U+2026"

(***************************************************************************)
(* String helpers of the standard library used by the code.                *)
(***************************************************************************)
RECURSIVE sep_by(_, _)
sep_by(parts, sep) ==
    IF Len(parts) = 0 THEN <<>>
    ELSE IF Len(parts) = 1 THEN parts[1]
    ELSE parts[1] \o sep \o sep_by(Tail(parts), sep)

surround_with(s, prefix, suffix) == prefix \o s \o suffix

RECURSIVE trim_start_matches(_, _)
trim_start_matches(s, ch) ==
    IF Len(s) > 0 /\ s[1] = ch THEN trim_start_matches(Tail(s), ch) ELSE s

Digit(d) == <<"0", "1", "2", "3", "4", "5", "6", "7", "8", "9">>[d + 1]

RECURSIVE usize_to_string(_)
usize_to_string(n) ==
    IF n < 10 THEN <<Digit(n)>> ELSE usize_to_string(n \div 10) \o <<Digit(n % 10)>>

starts_with(s, p) == Len(s) >= Len(p) /\ SubSeq(s, 1, Len(p)) = p

(***************************************************************************)
(* Strings of the analysed programs.                                       *)
(***************************************************************************)
s_x == <<"x">>

s_y == <<"y">>

s_z == <<"z">>

s_f == <<"f">>

s_g == <<"g">>

s_m == <<"m">>

s_V == <<"V">>

s_E_V == <<"E", ":", ":", "V">>

s_doc == <<"d", "o", "c">>

(***************************************************************************)
(* hir::Type: a type of the analysed program.  `id` is the identity of the *)
(* type, `text` its HirDisplay rendering; two different types may render   *)
(* to the same text (a local struct named like a type of another module).  *)
(***************************************************************************)
t_i32 == [id |-> "i32", text |-> <<"i", "3", "2">>, is_fn |-> FALSE, is_unknown |-> FALSE]

t_u32 == [id |-> "u32", text |-> <<"u", "3", "2">>, is_fn |-> FALSE, is_unknown |-> FALSE]

t_other_i32 ==
    [id |-> "other::i32", text |-> <<"i", "3", "2">>, is_fn |-> FALSE, is_unknown |-> FALSE]

t_fn == [id |-> "fn()", text |-> <<"f", "n", "(", ")">>, is_fn |-> TRUE, is_unknown |-> FALSE]

t_unknown ==
    [id |-> "{unknown}", text |-> <<"{", "u", "n", "k", "n", "o", "w", "n", "}">>,
     is_fn |-> FALSE, is_unknown |-> TRUE]

display(ty) == ty.text

(***************************************************************************)
(* hir::Field: a named field of a struct or of an enum variant.            *)
(***************************************************************************)
Field(name, ty, deprecated, docs) ==
    [name |-> name, ty |-> ty, deprecated |-> deprecated, docs |-> docs]

(***************************************************************************)
(* CompletionContext: the cursor site of one request.                      *)
(***************************************************************************)
CompletionConfig ==
    [add_call_parenthesis : BOOLEAN,
     add_call_argument_snippets : BOOLEAN,
     snippet_cap : {None, Some("SnippetCap")}]

ActiveParameters == {None, Some([name |-> s_x, ty |-> display(t_i32)])}

(* A record field initializer under the cursor, with what                  *)
(* sema.resolve_record_field answers for it.                               *)
RecordFields ==
    {None,
     Some([resolve_record_field |-> None]),
     Some([resolve_record_field |-> Some(Field(s_y, t_u32, FALSE, None))])}

ExpectedTypes == {None, Some(t_fn), Some(t_i32)}

AllContexts ==
    [is_path_type : BOOLEAN,
     has_type_args : BOOLEAN,
     is_call : BOOLEAN,
     is_macro_call : BOOLEAN,
     use_item_syntax : {None, Some("UseItem")},
     active_parameter : ActiveParameters,
     record_field_syntax : RecordFields,
     expected_type : ExpectedTypes,
     config : CompletionConfig]

(* The site of a plain expression under the default configuration. *)
DefaultContext ==
    [is_path_type |-> FALSE,
     has_type_args |-> FALSE,
     is_call |-> FALSE,
     is_macro_call |-> FALSE,
     use_item_syntax |-> None,
     active_parameter |-> None,
     record_field_syntax |-> None,
     expected_type |-> None,
     config |-> [add_call_parenthesis |-> TRUE,
                 add_call_argument_snippets |-> TRUE,
                 snippet_cap |-> Some("SnippetCap")]]

(* The fields of the context each component of the renderer reads. *)
CallFields == {"is_call", "use_item_syntax", "expected_type", "config"}

MacroFields == {"is_macro_call", "use_item_syntax", "config"}

PathTypeFields == {"is_path_type", "has_type_args", "config"}

ScoreFields == {"active_parameter", "record_field_syntax", "config"}

DiffersOnlyIn(c, fields) ==
    \A k \in DOMAIN c : k \notin fields => c[k] = DefaultContext[k]

(* The contexts explored: each component's inputs vary freely while the    *)
(* fields it does not read stay at their default.                          *)
Contexts ==
    {c \in AllContexts :
        \/ DiffersOnlyIn(c, CallFields)
        \/ DiffersOnlyIn(c, MacroFields) /\ c.config.add_call_argument_snippets
        \/ DiffersOnlyIn(c, PathTypeFields) /\ c.config.add_call_argument_snippets
        \/ DiffersOnlyIn(c, ScoreFields) /\ c.config = DefaultContext.config}

(***************************************************************************)
(* completion_item::Builder and CompletionItem.                            *)
(***************************************************************************)
CompletionItem_new(completion_kind, label) ==
    [completion_kind |-> completion_kind,
     label |-> label,
     insert_text |-> None,
     insert_text_format |-> "PlainText",
     kind |-> None,
     detail |-> None,
     documentation |-> None,
     deprecated |-> FALSE,
     score |-> None,
     lookup |-> None,
     trigger_call_info |-> FALSE]

set_kind(b, kind) == [b EXCEPT !.kind = Some(kind)]

set_detail(b, detail) == [b EXCEPT !.detail = Some(detail)]

set_documentation(b, docs) == [b EXCEPT !.documentation = docs]

set_deprecated(b, deprecated) == [b EXCEPT !.deprecated = deprecated]

set_score(b, score) == [b EXCEPT !.score = Some(score)]

lookup_by(b, lookup) == [b EXCEPT !.lookup = Some(lookup)]

set_label(b, label) == [b EXCEPT !.label = label]

insert_text(b, text) == [b EXCEPT !.insert_text = Some(text)]

insert_snippet(b, cap, snippet) ==
    [b EXCEPT !.insert_text = Some(snippet), !.insert_text_format = "Snippet"]

trigger_call_info(b) == [b EXCEPT !.trigger_call_info = TRUE]

(* Builder::build: the insertion text defaults to the label. *)
build(b) ==
    [completion_kind |-> b.completion_kind,
     label |-> b.label,
     insert |-> IF is_some(b.insert_text) THEN unwrap(b.insert_text) ELSE b.label,
     insert_text_format |-> b.insert_text_format,
     kind |-> b.kind,
     detail |-> b.detail,
     documentation |-> b.documentation,
     deprecated |-> b.deprecated,
     score |-> b.score,
     lookup |-> b.lookup,
     trigger_call_info |-> b.trigger_call_info]

(* Completions::add and Builder::add_to: the item goes to the end of buf. *)
add(acc, b) == Append(acc, build(b))

(***************************************************************************)
(* compute_score                                                           *)
(***************************************************************************)
(* The active expectation: the name and the type text the site asks for. *)
(* active_expectation looking at the active parameter first. *)
active_expectation_preferring_parameter(c) ==
    IF is_some(c.active_parameter)
    THEN Some([name |-> unwrap(c.active_parameter).name,
               ty |-> unwrap(c.active_parameter).ty])
    ELSE IF is_some(c.record_field_syntax)
    THEN LET resolved == unwrap(c.record_field_syntax).resolve_record_field
         IN  IF is_none(resolved) THEN None
             ELSE Some([name |-> unwrap(resolved).name,
                        ty |-> display(unwrap(resolved).ty)])
    ELSE None

(* active_expectation using the active parameter when the record field     *)
(* does not resolve.                                                       *)
active_expectation_falling_back(c) ==
    IF /\ is_some(c.record_field_syntax)
       /\ is_some(unwrap(c.record_field_syntax).resolve_record_field)
    THEN LET resolved == unwrap(c.record_field_syntax).resolve_record_field
         IN  Some([name |-> unwrap(resolved).name,
                   ty |-> display(unwrap(resolved).ty)])
    ELSE IF is_some(c.active_parameter)
    THEN Some([name |-> unwrap(c.active_parameter).name,
               ty |-> unwrap(c.active_parameter).ty])
    ELSE None

active_expectation(c) ==
    IF is_some(c.record_field_syntax)
    THEN LET resolved == unwrap(c.record_field_syntax).resolve_record_field
         IN  IF is_none(resolved) THEN None
             ELSE Some([name |-> unwrap(resolved).name,
                        ty |-> display(unwrap(resolved).ty)])
    ELSE IF is_some(c.active_parameter)
    THEN Some([name |-> unwrap(c.active_parameter).name,
               ty |-> unwrap(c.active_parameter).ty])
    ELSE None

(* compute_score giving a type match where the site expects nothing. *)
compute_score_without_expectation(c, ty, name) ==
    LET text == display(ty)
        active == active_expectation(c)
    IN  IF is_none(active) THEN Some("TypeMatch")
        ELSE IF unwrap(active).ty # text THEN None
        ELSE IF unwrap(active).name = name THEN Some("TypeAndNameMatch")
        ELSE Some("TypeMatch")

(* compute_score without the comparison of the names. *)
compute_score_ignoring_name(c, ty, name) ==
    LET text == display(ty)
        active == active_expectation(c)
    IN  IF is_none(active) THEN None
        ELSE IF unwrap(active).ty # text THEN None
        ELSE Some("TypeMatch")

compute_score(c, ty, name) ==
    LET text == display(ty)
        active == active_expectation(c)
    IN  IF is_none(active) THEN None
        ELSE IF unwrap(active).ty # text THEN None
        ELSE IF unwrap(active).name = name THEN Some("TypeAndNameMatch")
        ELSE Some("TypeMatch")

(***************************************************************************)
(* Params                                                                  *)
(***************************************************************************)
Named(names) == [tag |-> "Named", names |-> names, count |-> 0]

Anonymous(count) == [tag |-> "Anonymous", names |-> <<>>, count |-> count]

Params_len(params) == IF params.tag = "Named" THEN Len(params.names) ELSE params.count

Params_is_empty(params) == Params_len(params) = 0

(***************************************************************************)
(* Builder::add_call_parens                                                *)
(***************************************************************************)
(* format!("${{{}:{}}}", index + 1, param_name) *)
placeholder(index, param_name) ==
    <<"$", "{">> \o usize_to_string(index + 1) \o <<":">> \o param_name \o <<"}">>

function_params_snippet(names) ==
    sep_by([i \in 1..Len(names) |-> placeholder(i - 1, names[i])], <<",", " ">>)

(* no_call_parens without the check of the expected type. *)
no_call_parens_ignoring_expected_type(c) ==
    \/ ~c.config.add_call_parenthesis
    \/ is_some(c.use_item_syntax) \/ c.is_call
    \/ is_none(c.config.snippet_cap)

(* no_call_parens without the check for the snippet capability. *)
no_call_parens_ignoring_snippet_cap(c) ==
    \/ ~c.config.add_call_parenthesis
    \/ is_some(c.use_item_syntax) \/ c.is_call
    \/ is_some(c.expected_type) /\ unwrap(c.expected_type).is_fn

(* The sites at which add_call_parens returns the builder as it is. *)
no_call_parens(c) ==
    \/ ~c.config.add_call_parenthesis
    \/ is_some(c.use_item_syntax) \/ c.is_call
    \/ is_some(c.expected_type) /\ unwrap(c.expected_type).is_fn
    \/ is_none(c.config.snippet_cap)

(* call_snippet numbering the placeholders from 2. *)
call_snippet_off_by_one(c, name, params) ==
    IF Params_is_empty(params) THEN name \o <<"(", ")", "$", "0">>
    ELSE IF c.config.add_call_argument_snippets /\ params.tag = "Named"
    THEN name \o <<"(">>
           \o sep_by([i \in 1..Len(params.names) |-> placeholder(i, params.names[i])],
                     <<",", " ">>)
           \o <<")", "$", "0">>
    ELSE name \o <<"(", "$", "0", ")">>

call_snippet(c, name, params) ==
    IF Params_is_empty(params) THEN name \o <<"(", ")", "$", "0">>
    ELSE IF c.config.add_call_argument_snippets /\ params.tag = "Named"
    THEN name \o <<"(">> \o function_params_snippet(params.names) \o <<")", "$", "0">>
    ELSE name \o <<"(", "$", "0", ")">>

call_label(name, params) ==
    IF Params_is_empty(params) THEN name \o <<"(", ")">>
    ELSE name \o <<"(", Ellipsis, ")">>

(* add_call_parens setting trigger_call_info for empty parameter lists too. *)
add_call_parens_always_triggering(b, c, name, params) ==
    IF no_call_parens(c) THEN b
    ELSE
        LET cap == unwrap(c.config.snippet_cap)
            self == trigger_call_info(b)
        IN  insert_snippet(set_label(lookup_by(self, name), call_label(name, params)),
                           cap, call_snippet(c, name, params))

add_call_parens(b, c, name, params) ==
    IF no_call_parens(c) THEN b
    ELSE
        LET cap == unwrap(c.config.snippet_cap)
            self == IF Params_is_empty(params) THEN b ELSE trigger_call_info(b)
        IN  insert_snippet(set_label(lookup_by(self, name), call_label(name, params)),
                           cap, call_snippet(c, name, params))

(***************************************************************************)
(* guess_macro_braces                                                      *)
(***************************************************************************)
AsciiAlphanumeric ==
    {"a", "b", "c", "d", "e", "f", "g", "h", "i", "j", "k", "l", "m",
     "n", "o", "p", "q", "r", "s", "t", "u", "v", "w", "x", "y", "z",
     "A", "B", "C", "D", "E", "F", "G", "H", "I", "J", "K", "L", "M",
     "N", "O", "P", "Q", "R", "S", "T", "U", "V", "W", "X", "Y", "Z",
     "0", "1", "2", "3", "4", "5", "6", "7", "8", "9"}

Whitespace == {" ", "\t", "\n", "\r"}

(* str::match_indices: the start offsets (from 0) of the successive        *)
(* non-overlapping occurrences of pat in s, searched from offset idx.      *)
RECURSIVE match_indices(_, _, _)
match_indices(s, pat, idx) ==
    IF idx + Len(pat) > Len(s) THEN <<>>
    ELSE IF SubSeq(s, idx + 1, idx + Len(pat)) = pat
    THEN <<idx>> \o match_indices(s, pat, idx + Len(pat))
    ELSE match_indices(s, pat, idx + 1)

(* chars().find(|&c| !c.is_whitespace()) *)
RECURSIVE find_non_whitespace(_)
find_non_whitespace(s) ==
    IF Len(s) = 0 THEN None
    ELSE IF s[1] \notin Whitespace THEN Some(s[1])
    ELSE find_non_whitespace(Tail(s))

(* vote_of without the check of the character before the occurrence. *)
vote_of_without_boundary(macro_name, docs, idx) ==
    LET after == SubSeq(docs, idx + Len(macro_name) + 1, Len(docs))
        found == find_non_whitespace(Tail(after))
    IN  IF starts_with(after, <<"!">>)
        THEN IF found = Some("{") THEN 1
             ELSE IF found = Some("[") THEN 2
             ELSE IF found = Some("(") THEN 3
             ELSE 0
        ELSE 0

(* The vote, if any, of the occurrence of macro_name at offset idx. *)
vote_of(macro_name, docs, idx) ==
    LET before == SubSeq(docs, 1, idx)
        after == SubSeq(docs, idx + Len(macro_name) + 1, Len(docs))
        found == find_non_whitespace(Tail(after))
    IN  IF /\ starts_with(after, <<"!">>)
           /\ ~(Len(before) > 0
                /\ (before[Len(before)] = "_"
                    \/ before[Len(before)] \in AsciiAlphanumeric))
        THEN IF found = Some("{") THEN 1
             ELSE IF found = Some("[") THEN 2
             ELSE IF found = Some("(") THEN 3
             ELSE 0
        ELSE 0

count_votes(macro_name, docs) ==
    LET idxs == match_indices(docs, macro_name, 0)
    IN  [k \in 1..3 |->
            Cardinality({i \in 1..Len(idxs) : vote_of(macro_name, docs, idxs[i]) = k})]

(* max_by_key keeping the first element with the maximal key. *)
max_by_key_keeping_first(votes) ==
    CHOOSE k \in 1..Len(votes) :
        /\ \A j \in 1..Len(votes) : votes[j] <= votes[k]
        /\ \A j \in 1..(k - 1) : votes[j] < votes[k]

(* Iterator::max_by_key: the last element with the maximal key. *)
max_by_key(votes) ==
    CHOOSE k \in 1..Len(votes) :
        /\ \A j \in 1..Len(votes) : votes[j] <= votes[k]
        /\ \A j \in (k + 1)..Len(votes) : votes[j] < votes[k]

Braces == <<[bra |-> <<" ", "{">>, ket |-> <<"}">>],
            [bra |-> <<"[">>, ket |-> <<"]">>],
            [bra |-> <<"(">>, ket |-> <<")">>]>>

(* guess_macro_braces falling back to curly braces when nothing voted. *)
guess_macro_braces_defaulting_to_curly(macro_name, docs) ==
    IF count_votes(macro_name, docs) = <<0, 0, 0>> THEN Braces[1]
    ELSE Braces[max_by_key(count_votes(macro_name, docs))]

guess_macro_braces(macro_name, docs) == Braces[max_by_key(count_votes(macro_name, docs))]

(***************************************************************************)
(* The definitions of the analysed program (hir), as the database answers  *)
(* for them.                                                               *)
(***************************************************************************)
(* hir::Function with its FunctionSignature: parameter_names lists the     *)
(* receiver first when there is one; text is the signature's rendering.    *)
Function(name, has_self_param, parameter_names, text, deprecated, docs) ==
    [name |-> name,
     has_self_param |-> has_self_param,
     parameter_names |-> parameter_names,
     text |-> text,
     deprecated |-> deprecated,
     docs |-> docs]

fn_f == Function(s_f, FALSE, <<>>, <<"f", "n", " ", "f", "(", ")">>, TRUE, Some(s_doc))

fn_g ==
    Function(s_g, FALSE, <<<<"_", "f", "o", "o">>, <<"_", "_", "_", "b", "a", "r">>, <<"h", "o", "_", "g", "e", "_">>>>,
             <<"f", "n", " ", "g", "(", "_", "f", "o", "o", ":", " ", "i", "3", "2", ",", " ", "_", "_", "_", "b", "a", "r", ":", " ", "b", "o", "o", "l", ",", " ", "h", "o", "_", "g", "e", "_", ":", " ", "S", "t", "r", "i", "n", "g", ")">>, FALSE, None)

fn_m == Function(<<"_", "m">>, TRUE, <<<<"&", "s", "e", "l", "f">>, <<"_", "x">>>>, <<"f", "n", " ", "_", "m", "(", "&", "s", "e", "l", "f", ",", " ", "_", "x", ":", " ", "i", "3", "2", ")">>, FALSE, None)

fn_n == Function(<<"n">>, TRUE, <<<<"s", "e", "l", "f">>>>, <<"f", "n", " ", "n", "(", "s", "e", "l", "f", ")">>, FALSE, None)

(* hir::MacroDef: label is macro_label of its source. *)
MacroDef(is_proc_macro, label, deprecated, docs) ==
    [is_proc_macro |-> is_proc_macro, label |-> label, deprecated |-> deprecated,
     docs |-> docs]

mac_plain == MacroDef(FALSE, <<"m", "a", "c", "r", "o", "_", "r", "u", "l", "e", "s", "!", " ", "m">>, FALSE, None)

mac_round == MacroDef(FALSE, <<"m", "a", "c", "r", "o", "_", "r", "u", "l", "e", "s", "!", " ", "m">>, TRUE, Some(<<"m", "!", "(", "1", ")", " ", "m", "!", "[", "2", "]", " ", "x", "m", "!", "{", "}">>))

mac_curly == MacroDef(FALSE, <<"m", "a", "c", "r", "o", "_", "r", "u", "l", "e", "s", "!", " ", "m">>, FALSE, Some(<<"m", "!", " ", "{", "}", " ", "m", "_", "m", "!", "[", "]">>))

mac_proc == MacroDef(TRUE, <<>>, FALSE, None)

(* hir::Const and hir::TypeAlias: name is the name of the source node,     *)
(* label the const_label / type_label of the source node.                  *)
Item(name, label, deprecated, docs) ==
    [name |-> name, label |-> label, deprecated |-> deprecated, docs |-> docs]

const_x == Item(Some(s_x), <<"c", "o", "n", "s", "t", " ", "x", ":", " ", "i", "3", "2">>, TRUE, Some(s_doc))

const_unnamed == Item(None, <<"c", "o", "n", "s", "t", " ", ":", " ", "i", "3", "2">>, FALSE, None)

alias_y == Item(Some(s_y), <<"t", "y", "p", "e", " ", "y">>, FALSE, Some(s_doc))

alias_unnamed == Item(None, <<"t", "y", "p", "e", " ">>, FALSE, None)

(* hir::EnumVariant *)
EnumVariant(name, kind, fields, deprecated, docs) ==
    [name |-> name, kind |-> kind, fields |-> fields, deprecated |-> deprecated,
     docs |-> docs]

f_x_i32 == Field(s_x, t_i32, TRUE, Some(s_doc))

f_y_i32 == Field(s_y, t_i32, FALSE, None)

f_y_u32 == Field(s_y, t_u32, FALSE, None)

f_x_other == Field(s_x, t_other_i32, FALSE, None)

f_0_i32 == Field(<<"0">>, t_i32, FALSE, None)

f_1_u32 == Field(<<"1">>, t_u32, FALSE, None)

var_unit == EnumVariant(s_V, "Unit", <<>>, FALSE, None)

var_tuple0 == EnumVariant(s_V, "Tuple", <<>>, FALSE, None)

var_tuple2 == EnumVariant(s_V, "Tuple", <<f_0_i32, f_1_u32>>, TRUE, Some(s_doc))

var_record == EnumVariant(s_V, "Record", <<f_x_i32, f_y_u32>>, FALSE, None)

(* hir::ModPath of a variant, with its rendering. *)
path_E_V == [text |-> s_E_V]

(* hir::ScopeDef.  tag names the variant (ModuleDef variants by the name   *)
(* of the definition kind); func, variant, mac and local_ty hold the       *)
(* definition behind a Function, EnumVariant, MacroDef and Local; docs is  *)
(* the documentation of a definition that has any; type_params tells, for  *)
(* each type parameter of an Adt or TypeAlias, whether it has a default.   *)
ScopeDef(tag) ==
    [tag |-> tag, func |-> None, variant |-> None, mac |-> None, local_ty |-> None,
     docs |-> None, type_params |-> <<>>]

ScopeDefTags ==
    {"Module", "Function", "Struct", "Union", "Enum", "EnumVariant", "Const", "Static",
     "Trait", "TypeAlias", "BuiltinType", "GenericParam", "Local", "AdtSelfType",
     "ImplSelfType", "MacroDef", "Unknown"}

WithDefault == [has_default |-> TRUE]

NoDefault == [has_default |-> FALSE]

(* Adt::has_non_default_type_params, TypeAlias::has_non_default_type_params *)
has_non_default_type_params(def) ==
    \E i \in 1..Len(def.type_params) : ~def.type_params[i].has_default

(***************************************************************************)
(* impl Completions                                                        *)
(***************************************************************************)
is_deprecated(node) == node.deprecated

(* add_field placing an item that has a score before the items without. *)
add_field_sorting_by_score(acc, c, field, ty) ==
    LET name == field.name
        completion_item ==
            set_deprecated(
                set_documentation(
                    set_detail(set_kind(CompletionItem_new("Reference", name), "Field"),
                               display(ty)),
                    field.docs),
                is_deprecated(field))
        score == compute_score(c, ty, name)
    IN  IF is_some(score)
        THEN <<build(set_score(completion_item, unwrap(score)))>> \o acc
        ELSE add(acc, completion_item)

add_field(acc, c, field, ty) ==
    LET name == field.name
        completion_item ==
            set_deprecated(
                set_documentation(
                    set_detail(set_kind(CompletionItem_new("Reference", name), "Field"),
                               display(ty)),
                    field.docs),
                is_deprecated(field))
        score == compute_score(c, ty, name)
    IN  add(acc, IF is_some(score) THEN set_score(completion_item, unwrap(score))
                 ELSE completion_item)

add_tuple_field(acc, c, field, ty) ==
    add(acc, set_detail(set_kind(CompletionItem_new("Reference", usize_to_string(field)),
                                 "Field"),
                        display(ty)))

(* macro_needs_bang without the check for an existing macro call. *)
macro_needs_bang_ignoring_macro_call(c) == is_none(c.use_item_syntax)

(* macro_needs_bang without the check for an import. *)
macro_needs_bang_ignoring_use_item(c) == ~c.is_macro_call

(* Whether the site still needs the `!` of a macro call. *)
macro_needs_bang(c) == is_none(c.use_item_syntax) /\ ~c.is_macro_call

add_macro(acc, c, name, macro_) ==
    IF macro_.is_proc_macro THEN acc
    ELSE IF is_none(name) THEN acc
    ELSE
        LET n == unwrap(name)
            docs == macro_.docs
            builder ==
                set_detail(
                    set_deprecated(
                        set_documentation(
                            set_kind(CompletionItem_new("Reference", n \o <<"!">>), "Macro"),
                            docs),
                        is_deprecated(macro_)),
                    macro_.label)
            needs_bang == macro_needs_bang(c)
            braces == guess_macro_braces(n, IF is_some(docs) THEN unwrap(docs) ELSE <<>>)
        IN  add(acc,
                IF is_some(c.config.snippet_cap) /\ needs_bang
                THEN set_label(
                         insert_snippet(builder, unwrap(c.config.snippet_cap),
                                        n \o <<"!">> \o braces.bra \o <<"$", "0">>
                                          \o braces.ket),
                         n \o <<"!">> \o braces.bra \o <<Ellipsis>> \o braces.ket)
                ELSE IF is_none(c.config.snippet_cap) /\ needs_bang
                THEN insert_text(builder, n \o <<"!">>)
                ELSE insert_text(builder, n))

(* function_params trimming one leading underscore only. *)
function_params_trimming_one(func) ==
    LET names == func.parameter_names
        rest == IF func.has_self_param THEN SubSeq(names, 2, Len(names)) ELSE names
    IN  [i \in 1..Len(rest) |->
            IF starts_with(rest[i], <<"_">>) THEN Tail(rest[i]) ELSE rest[i]]

(* The parameter names handed to add_call_parens: the receiver skipped,    *)
(* leading underscores trimmed.                                            *)
function_params(func) ==
    LET names == func.parameter_names
        rest == IF func.has_self_param THEN SubSeq(names, 2, Len(names)) ELSE names
    IN  [i \in 1..Len(rest) |-> trim_start_matches(rest[i], "_")]

add_function(acc, c, func, local_name) ==
    LET name == IF is_some(local_name) THEN unwrap(local_name) ELSE func.name
        builder ==
            set_detail(
                set_deprecated(
                    set_documentation(
                        set_kind(CompletionItem_new("Reference", name),
                                 IF func.has_self_param THEN "Method" ELSE "Function"),
                        func.docs),
                    is_deprecated(func)),
                func.text)
    IN  add(acc, add_call_parens(builder, c, name, Named(function_params(func))))

(* add_const rendering a constant without a name under the empty label. *)
add_const_rendering_unnamed(acc, c, constant) ==
    add(acc,
        set_detail(
            set_deprecated(
                set_documentation(
                    set_kind(CompletionItem_new("Reference",
                                                IF is_none(constant.name) THEN <<>>
                                                ELSE unwrap(constant.name)),
                             "Const"),
                    constant.docs),
                is_deprecated(constant)),
            constant.label))

add_const(acc, c, constant) ==
    IF is_none(constant.name) THEN acc
    ELSE add(acc,
             set_detail(
                 set_deprecated(
                     set_documentation(
                         set_kind(CompletionItem_new("Reference", unwrap(constant.name)),
                                  "Const"),
                         constant.docs),
                     is_deprecated(constant)),
                 constant.label))

add_type_alias(acc, c, type_alias) ==
    IF is_none(type_alias.name) THEN acc
    ELSE add(acc,
             set_detail(
                 set_deprecated(
                     set_documentation(
                         set_kind(CompletionItem_new("Reference", unwrap(type_alias.name)),
                                  "TypeAlias"),
                         type_alias.docs),
                     is_deprecated(type_alias)),
                 type_alias.label))

(* variant_detail joining the fields with `,` instead of `, `. *)
variant_detail_without_space(variant) ==
    LET fields == variant.fields
    IN  IF variant.kind \in {"Tuple", "Unit"}
        THEN surround_with(
                 sep_by([i \in 1..Len(fields) |-> display(fields[i].ty)], <<",">>),
                 <<"(">>, <<")">>)
        ELSE surround_with(
                 sep_by([i \in 1..Len(fields) |->
                            fields[i].name \o <<":", " ">> \o display(fields[i].ty)],
                        <<",">>),
                 <<"{", " ">>, <<" ", "}">>)

(* The detail of an enum variant. *)
variant_detail(variant) ==
    LET fields == variant.fields
    IN  IF variant.kind \in {"Tuple", "Unit"}
        THEN surround_with(
                 sep_by([i \in 1..Len(fields) |-> display(fields[i].ty)], <<",", " ">>),
                 <<"(">>, <<")">>)
        ELSE surround_with(
                 sep_by([i \in 1..Len(fields) |->
                            fields[i].name \o <<":", " ">> \o display(fields[i].ty)],
                        <<",", " ">>),
                 <<"{", " ">>, <<" ", "}">>)

(* add_enum_variant_impl adding call parentheses to record variants too. *)
add_enum_variant_impl_calling_records(acc, c, variant, local_name, path) ==
    LET name == IF is_some(local_name) THEN unwrap(local_name) ELSE variant.name
        qualified_name == IF is_some(path) THEN unwrap(path).text ELSE name
        res0 ==
            set_detail(
                set_deprecated(
                    set_documentation(
                        set_kind(CompletionItem_new("Reference", qualified_name),
                                 "EnumVariant"),
                        variant.docs),
                    is_deprecated(variant)),
                variant_detail(variant))
        res1 == IF is_some(path) THEN lookup_by(res0, name) ELSE res0
    IN  add(acc, IF variant.kind # "Unit"
                 THEN add_call_parens(res1, c, qualified_name,
                                      Anonymous(Len(variant.fields)))
                 ELSE res1)

add_enum_variant_impl(acc, c, variant, local_name, path) ==
    LET name == IF is_some(local_name) THEN unwrap(local_name) ELSE variant.name
        qualified_name == IF is_some(path) THEN unwrap(path).text ELSE name
        res0 ==
            set_detail(
                set_deprecated(
                    set_documentation(
                        set_kind(CompletionItem_new("Reference", qualified_name),
                                 "EnumVariant"),
                        variant.docs),
                    is_deprecated(variant)),
                variant_detail(variant))
        res1 == IF is_some(path) THEN lookup_by(res0, name) ELSE res0
        res2 == IF variant.kind = "Tuple"
                THEN add_call_parens(res1, c, qualified_name,
                                     Anonymous(Len(variant.fields)))
                ELSE res1
    IN  add(acc, res2)

add_qualified_enum_variant(acc, c, variant, path) ==
    add_enum_variant_impl(acc, c, variant, None, Some(path))

add_enum_variant(acc, c, variant, local_name) ==
    add_enum_variant_impl(acc, c, variant, local_name, None)

(* The CompletionItemKind add_resolution gives a definition it renders     *)
(* itself.                                                                 *)
resolution_kind(resolution) ==
    CASE resolution.tag = "Module" -> "Module"
      [] resolution.tag = "Struct" -> "Struct"
      [] resolution.tag = "Union" -> "Struct"
      [] resolution.tag = "Enum" -> "Enum"
      [] resolution.tag = "Const" -> "Const"
      [] resolution.tag = "Static" -> "Static"
      [] resolution.tag = "Trait" -> "Trait"
      [] resolution.tag = "TypeAlias" -> "TypeAlias"
      [] resolution.tag = "BuiltinType" -> "BuiltinType"
      [] resolution.tag = "GenericParam" -> "TypeParam"
      [] resolution.tag = "Local" -> "Binding"
      [] resolution.tag \in {"AdtSelfType", "ImplSelfType"} -> "TypeParam"

resolution_docs(resolution) ==
    IF resolution.tag \in {"Module", "Struct", "Union", "Enum", "EnumVariant", "Const",
                           "Static", "Trait", "TypeAlias"}
    THEN resolution.docs
    ELSE None

(* adds_angle_brackets without the check for a type-argument list. *)
adds_angle_brackets_ignoring_type_args(c, resolution) ==
    /\ c.is_path_type /\ c.config.add_call_parenthesis
    /\ is_some(c.config.snippet_cap)
    /\ IF resolution.tag \in {"Struct", "Union", "Enum", "TypeAlias"}
       THEN has_non_default_type_params(resolution)
       ELSE FALSE

(* Whether add_resolution adds `<>` for a generic type. *)
adds_angle_brackets(c, resolution) ==
    /\ c.is_path_type /\ ~c.has_type_args /\ c.config.add_call_parenthesis
    /\ is_some(c.config.snippet_cap)
    /\ IF resolution.tag \in {"Struct", "Union", "Enum", "TypeAlias"}
       THEN has_non_default_type_params(resolution)
       ELSE FALSE

add_resolution(acc, c, local_name, resolution) ==
    CASE resolution.tag = "Function" ->
            add_function(acc, c, unwrap(resolution.func), Some(local_name))
      [] resolution.tag = "EnumVariant" ->
            add_enum_variant(acc, c, unwrap(resolution.variant), Some(local_name))
      [] resolution.tag = "MacroDef" ->
            add_macro(acc, c, Some(local_name), unwrap(resolution.mac))
      [] resolution.tag = "Unknown" ->
            add(acc, CompletionItem_new("Reference", local_name))
      [] OTHER ->
            LET completion_kind ==
                    IF resolution.tag = "BuiltinType" THEN "BuiltinType" ELSE "Reference"
                item0 == CompletionItem_new(completion_kind, local_name)
                item1 ==
                    IF resolution.tag = "Local" /\ ~unwrap(resolution.local_ty).is_unknown
                    THEN set_detail(item0, display(unwrap(resolution.local_ty)))
                    ELSE item0
                score ==
                    IF resolution.tag = "Local"
                    THEN compute_score(c, unwrap(resolution.local_ty), local_name)
                    ELSE None
                item2 == IF is_some(score) THEN set_score(item1, unwrap(score)) ELSE item1
                item3 ==
                    IF adds_angle_brackets(c, resolution)
                    THEN insert_snippet(
                             set_label(lookup_by(item2, local_name),
                                       local_name \o <<"<", Ellipsis, ">">>),
                             unwrap(c.config.snippet_cap),
                             local_name \o <<"<", "$", "0", ">">>)
                    ELSE item2
            IN  add(acc, set_documentation(set_kind(item3, resolution_kind(resolution)),
                                           resolution_docs(resolution)))

(***************************************************************************)
(* The databases explored: each is a small program, given by the           *)
(* candidates the resolution engine can offer for it.                      *)
(***************************************************************************)
EmptyDb ==
    [fields |-> {}, tuple_fields |-> {}, functions |-> {}, macros |-> {}, consts |-> {},
     type_aliases |-> {}, variants |-> {}, qualified_variants |-> {}, scope |-> {}]

Generic(tag, type_params) ==
    [ScopeDef(tag) EXCEPT !.type_params = type_params, !.docs = Some(s_doc)]

Local(ty) == [ScopeDef("Local") EXCEPT !.local_ty = Some(ty)]

(* A struct with fields, its tuple fields and the locals in scope. *)
DbStruct ==
    [EmptyDb EXCEPT
        !.fields = {[field |-> f_x_i32, ty |-> t_i32], [field |-> f_y_i32, ty |-> t_i32],
                    [field |-> f_y_u32, ty |-> t_u32],
                    [field |-> f_x_other, ty |-> t_other_i32]},
        !.tuple_fields = {[field |-> 0, ty |-> t_i32], [field |-> 12, ty |-> t_u32]},
        !.scope = {[local_name |-> s_x, resolution |-> Local(t_i32)],
                   [local_name |-> s_z, resolution |-> Local(t_unknown)]}]

(* Free functions and methods. *)
DbFns ==
    [EmptyDb EXCEPT
        !.functions = {[func |-> fn_f, local_name |-> None],
                       [func |-> fn_g, local_name |-> None],
                       [func |-> fn_m, local_name |-> None],
                       [func |-> fn_n, local_name |-> None]},
        !.scope = {[local_name |-> s_x,
                    resolution |-> [ScopeDef("Function") EXCEPT !.func = Some(fn_g)]]}]

(* Macros, constants and type aliases. *)
DbMacros ==
    [EmptyDb EXCEPT
        !.macros = {[name |-> None, mac |-> mac_plain],
                    [name |-> Some(s_m), mac |-> mac_proc],
                    [name |-> Some(s_m), mac |-> mac_plain],
                    [name |-> Some(s_m), mac |-> mac_round],
                    [name |-> Some(s_m), mac |-> mac_curly]},
        !.consts = {const_x, const_unnamed},
        !.type_aliases = {alias_y, alias_unnamed},
        !.scope = {[local_name |-> s_m,
                    resolution |-> [ScopeDef("MacroDef") EXCEPT !.mac = Some(mac_round)]],
                   [local_name |-> s_x,
                    resolution |-> [ScopeDef("MacroDef") EXCEPT !.mac = Some(mac_proc)]]}]

(* An enum with a variant of each kind. *)
DbEnum ==
    [EmptyDb EXCEPT
        !.variants = {[variant |-> var_unit, local_name |-> None],
                      [variant |-> var_tuple0, local_name |-> None],
                      [variant |-> var_tuple2, local_name |-> None],
                      [variant |-> var_record, local_name |-> None]},
        !.qualified_variants = {[variant |-> var_unit, path |-> path_E_V],
                                [variant |-> var_tuple0, path |-> path_E_V],
                                [variant |-> var_tuple2, path |-> path_E_V],
                                [variant |-> var_record, path |-> path_E_V]},
        !.scope = {[local_name |-> s_x,
                    resolution |->
                        [ScopeDef("EnumVariant") EXCEPT !.variant = Some(var_tuple2)]]}]

(* Generic and non-generic types. *)
DbTypes ==
    [EmptyDb EXCEPT
        !.scope = {[local_name |-> s_V, resolution |-> Generic("Struct", <<NoDefault>>)],
                   [local_name |-> s_V, resolution |-> Generic("Struct", <<WithDefault>>)],
                   [local_name |-> s_V, resolution |-> Generic("Struct", <<>>)],
                   [local_name |-> s_V,
                    resolution |-> Generic("Union", <<WithDefault, NoDefault>>)],
                   [local_name |-> s_V, resolution |-> Generic("Enum", <<NoDefault>>)],
                   [local_name |-> s_y, resolution |-> Generic("TypeAlias", <<NoDefault>>)],
                   [local_name |-> s_y, resolution |-> Generic("TypeAlias", <<>>)],
                   [local_name |-> s_z, resolution |-> Generic("Trait", <<NoDefault>>)],
                   [local_name |-> s_z, resolution |-> ScopeDef("GenericParam")]}]

(* The other definitions a scope holds. *)
DbScope ==
    [EmptyDb EXCEPT
        !.scope = {[local_name |-> s_m, resolution |-> Generic("Module", <<>>)],
                   [local_name |-> s_x, resolution |-> Generic("Const", <<>>)],
                   [local_name |-> s_x, resolution |-> Generic("Static", <<>>)],
                   [local_name |-> s_y, resolution |-> ScopeDef("BuiltinType")],
                   [local_name |-> s_V, resolution |-> ScopeDef("AdtSelfType")],
                   [local_name |-> s_V, resolution |-> ScopeDef("ImplSelfType")],
                   [local_name |-> s_z, resolution |-> ScopeDef("Unknown")]}]

(* The databases, by name. *)
Databases == {"struct", "fns", "macros", "enum", "types", "scope"}

Database(name) ==
    CASE name = "struct" -> DbStruct
      [] name = "fns" -> DbFns
      [] name = "macros" -> DbMacros
      [] name = "enum" -> DbEnum
      [] name = "types" -> DbTypes
      [] name = "scope" -> DbScope

(***************************************************************************)
(* The state: the name of the database and the context of the request, the *)
(* accumulator (Completions.buf) and the calls made so far.                 *)
(***************************************************************************)
Call(op) ==
    [op |-> op, field |-> None, ty |-> None, index |-> None, func |-> None, mac |-> None,
     item |-> None, variant |-> None, path |-> None, resolution |-> None,
     local_name |-> None, emitted |-> FALSE]

Record(call, acc) ==
    /\ buf' = acc
    /\ offered' = Append(offered, [call EXCEPT !.emitted = Len(acc) > Len(buf)])
    /\ UNCHANGED <<db, ctx>>

Init ==
    /\ db \in Databases
    /\ ctx \in Contexts
    /\ buf = <<>>
    /\ offered = <<>>

AddField ==
    /\ Len(offered) < MaxOffered
    /\ \E cand \in Database(db).fields :
          Record([Call("add_field") EXCEPT !.field = Some(cand.field), !.ty = Some(cand.ty)],
                 add_field(buf, ctx, cand.field, cand.ty))

AddTupleField ==
    /\ Len(offered) < MaxOffered
    /\ \E cand \in Database(db).tuple_fields :
          Record([Call("add_tuple_field") EXCEPT !.index = Some(cand.field),
                                                 !.ty = Some(cand.ty)],
                 add_tuple_field(buf, ctx, cand.field, cand.ty))

AddResolution ==
    /\ Len(offered) < MaxOffered
    /\ \E cand \in Database(db).scope :
          Record([Call("add_resolution") EXCEPT !.local_name = Some(cand.local_name),
                                                !.resolution = Some(cand.resolution)],
                 add_resolution(buf, ctx, cand.local_name, cand.resolution))

AddMacro ==
    /\ Len(offered) < MaxOffered
    /\ \E cand \in Database(db).macros :
          Record([Call("add_macro") EXCEPT !.local_name = cand.name, !.mac = Some(cand.mac)],
                 add_macro(buf, ctx, cand.name, cand.mac))

AddFunction ==
    /\ Len(offered) < MaxOffered
    /\ \E cand \in Database(db).functions :
          Record([Call("add_function") EXCEPT !.func = Some(cand.func),
                                              !.local_name = cand.local_name],
                 add_function(buf, ctx, cand.func, cand.local_name))

AddConst ==
    /\ Len(offered) < MaxOffered
    /\ \E constant \in Database(db).consts :
          Record([Call("add_const") EXCEPT !.item = Some(constant)],
                 add_const(buf, ctx, constant))

AddTypeAlias ==
    /\ Len(offered) < MaxOffered
    /\ \E type_alias \in Database(db).type_aliases :
          Record([Call("add_type_alias") EXCEPT !.item = Some(type_alias)],
                 add_type_alias(buf, ctx, type_alias))

AddQualifiedEnumVariant ==
    /\ Len(offered) < MaxOffered
    /\ \E cand \in Database(db).qualified_variants :
          Record([Call("add_qualified_enum_variant") EXCEPT !.variant = Some(cand.variant),
                                                            !.path = Some(cand.path)],
                 add_qualified_enum_variant(buf, ctx, cand.variant, cand.path))

AddEnumVariant ==
    /\ Len(offered) < MaxOffered
    /\ \E cand \in Database(db).variants :
          Record([Call("add_enum_variant") EXCEPT !.variant = Some(cand.variant),
                                                  !.local_name = cand.local_name],
                 add_enum_variant(buf, ctx, cand.variant, cand.local_name))

Next ==
    \/ AddField
    \/ AddTupleField
    \/ AddResolution
    \/ AddMacro
    \/ AddFunction
    \/ AddConst
    \/ AddTypeAlias
    \/ AddQualifiedEnumVariant
    \/ AddEnumVariant

Spec == Init /\ [][Next]_vars

(***************************************************************************)
(* The calls and the items they emitted.                                   *)
(***************************************************************************)
(* The number of items the first i calls emitted. *)
EmittedBefore(i) == Cardinality({j \in 1..i : offered[j].emitted})

(* The item the i-th call emitted. *)
ItemOf(i) == buf[EmittedBefore(i)]

Calls(ops) == {i \in 1..Len(offered) : offered[i].op \in ops /\ offered[i].emitted}

TypeOK ==
    /\ db \in Databases
    /\ ctx \in Contexts
    /\ \A cand \in Database(db).scope : cand.resolution.tag \in ScopeDefTags
    /\ Len(offered) <= MaxOffered
    /\ Len(buf) = EmittedBefore(Len(offered))

(***************************************************************************)
(* Inputs of the properties.                                               *)
(***************************************************************************)
(* The context and the database stay the same for the whole request, so a  *)
(* property of the pure functions under the context is evaluated once per  *)
(* request, before the first candidate is offered.                         *)
AtStart == offered = <<>>

Types == {t_i32, t_u32, t_other_i32, t_fn, t_unknown}

Names == {s_x, s_y, s_z}

Functions == {fn_f, fn_g, fn_m, fn_n}

ParamLists ==
    {Named(<<>>), Named(<<s_x>>), Named(<<s_x, s_y>>), Named(<<s_x, s_y, s_z>>),
     Anonymous(0), Anonymous(1), Anonymous(2)}

(* The name a function call was asked to render under. *)
CallName(call) ==
    IF is_some(call.local_name) THEN unwrap(call.local_name) ELSE unwrap(call.func).name

(* The four conditions under which no call syntax is added. *)
Suppressed(c) ==
    \/ c.config.add_call_parenthesis = FALSE
    \/ c.use_item_syntax # None \/ c.is_call = TRUE
    \/ c.expected_type # None /\ c.expected_type[1].is_fn
    \/ c.config.snippet_cap = None

(* `${1:p1}, ${2:p2}, ..., ${n:pn}` written out for n <= 4. *)
ExpectedPlaceholders(ps) ==
    CASE Len(ps) = 1 -> <<"$", "{", "1", ":">> \o ps[1] \o <<"}">>
      [] Len(ps) = 2 -> <<"$", "{", "1", ":">> \o ps[1] \o <<"}", ",", " ", "$", "{", "2", ":">> \o ps[2] \o <<"}">>
      [] Len(ps) = 3 -> <<"$", "{", "1", ":">> \o ps[1] \o <<"}", ",", " ", "$", "{", "2", ":">> \o ps[2] \o <<"}", ",", " ", "$", "{", "3", ":">> \o ps[3] \o <<"}">>
      [] Len(ps) = 4 -> <<"$", "{", "1", ":">> \o ps[1] \o <<"}", ",", " ", "$", "{", "2", ":">> \o ps[2] \o <<"}", ",", " ", "$", "{", "3", ":">> \o ps[3]
                          \o <<"}", ",", " ", "$", "{", "4", ":">> \o ps[4] \o <<"}">>

(* What the call-parenthesis inserter is to produce at a site where it is  *)
(* not suppressed.                                                         *)
ExpectedCallLabel(name, params) ==
    IF Params_len(params) = 0 THEN name \o <<"(", ")">> ELSE name \o <<"(", Ellipsis, ")">>

ExpectedCallSnippet(c, name, params) ==
    IF Params_len(params) = 0 THEN name \o <<"(", ")", "$", "0">>
    ELSE IF params.tag = "Named" /\ c.config.add_call_argument_snippets
    THEN name \o <<"(">> \o ExpectedPlaceholders(params.names) \o <<")", "$", "0">>
    ELSE name \o <<"(", "$", "0", ")">>

(* s without its leading underscores. *)
StripLeading(s) ==
    LET k == Cardinality({j \in 1..Len(s) : \A i \in 1..j : s[i] = "_"})
    IN  SubSeq(s, k + 1, Len(s))

(* The declared parameter names, receiver excluded, leading underscores    *)
(* removed.                                                                *)
ExpectedParams(func) ==
    LET names == func.parameter_names
        first == IF func.has_self_param THEN 2 ELSE 1
    IN  [i \in 1..(Len(names) + 1 - first) |-> StripLeading(names[i + first - 1])]

(***************************************************************************)
(* C1: an item carries a score only if the context has an active           *)
(* expectation (record_field_syntax or active_parameter present); with     *)
(* neither present compute_score is absent for every candidate type and    *)
(* name, and no emitted item has a score.                                  *)
(***************************************************************************)
C1_ScoreOnlyWithExpectation ==
    LET expecting == ctx.record_field_syntax # None \/ ctx.active_parameter # None
    IN  /\ \A i \in 1..Len(buf) : buf[i].score # None => expecting
        /\ (AtStart /\ ~expecting) =>
              \A ty \in Types, n \in Names : compute_score(ctx, ty, n) = None

C1_Witness ==
    /\ ctx.active_parameter # None
    /\ \E i \in Calls({"add_field", "add_resolution"}) : ItemOf(i).score # None

(***************************************************************************)
(* C2: with an active expectation (name N, type text T), compute_score of  *)
(* a candidate (type text t, name n) is absent if t # T, TypeAndNameMatch  *)
(* if t = T and n = N, TypeMatch if t = T and n # N; only the display text *)
(* of the type counts.                                                     *)
(***************************************************************************)
ExpectedScore(active, text, name) ==
    IF text # active.ty THEN None
    ELSE IF name = active.name THEN Some("TypeAndNameMatch")
    ELSE Some("TypeMatch")

C2_ScoreByTextAndName ==
    active_expectation(ctx) # None =>
        LET active == active_expectation(ctx)[1]
        IN  /\ AtStart =>
                  \A ty \in Types, n \in Names :
                      compute_score(ctx, ty, n) = ExpectedScore(active, ty.text, n)
            /\ \A i \in Calls({"add_field"}) :
                  ItemOf(i).score =
                      ExpectedScore(active, offered[i].ty[1].text, offered[i].field[1].name)

C2_Witness ==
    \E i, j \in Calls({"add_field"}) :
        /\ offered[i].ty[1].id # offered[j].ty[1].id
        /\ ItemOf(i).score = Some("TypeAndNameMatch")
        /\ ItemOf(j).score = Some("TypeMatch")

(***************************************************************************)
(* C3: add_call_parens adds call syntax if and only if none of the four    *)
(* suppression conditions holds, whatever the parameter list; when         *)
(* suppressed it returns the builder unchanged: label and insertion text   *)
(* stay the bare name, no lookup, no trigger_call_info.                    *)
(***************************************************************************)
C3_CallParensSuppression ==
    /\ AtStart =>
          \A params \in ParamLists, name \in Names :
              LET b == set_kind(CompletionItem_new("Reference", name), "Function")
                  r == add_call_parens(b, ctx, name, params)
              IN  IF Suppressed(ctx) THEN r = b
                  ELSE /\ r.insert_text_format = "Snippet"
                       /\ starts_with(r.label, name \o <<"(">>)
                       /\ starts_with(r.insert_text[1], name \o <<"(">>)
    /\ \A i \in Calls({"add_function"}) :
          LET name == CallName(offered[i])
              item == ItemOf(i)
          IN  IF Suppressed(ctx)
              THEN /\ item.label = name
                   /\ item.insert = name
                   /\ item.insert_text_format = "PlainText"
                   /\ item.lookup = None
                   /\ ~item.trigger_call_info
              ELSE /\ item.insert_text_format = "Snippet"
                   /\ starts_with(item.label, name \o <<"(">>)
                   /\ starts_with(item.insert, name \o <<"(">>)

C3_Witness ==
    /\ ctx.config.add_call_parenthesis
    /\ ctx.use_item_syntax = None /\ ~ctx.is_call
    /\ ctx.config.snippet_cap # None
    /\ ctx.expected_type = Some(t_fn)
    /\ \E i \in Calls({"add_function"}) :
          /\ offered[i].func = Some(fn_g)
          /\ ItemOf(i).label = s_g
          /\ ItemOf(i).insert = s_g

(***************************************************************************)
(* C4: when add_call_parens is not suppressed: an empty parameter list     *)
(* gives label `name()` and snippet `name()$0`; a non-empty Named list     *)
(* with add_call_argument_snippets gives label `name(...)` (the ellipsis   *)
(* character) and snippet `name(${1:p1}, ..., ${n:pn})$0`; any other       *)
(* non-empty list gives label `name(...)` and snippet `name($0)`.          *)
(***************************************************************************)
C4_CallParensText ==
    ~Suppressed(ctx) =>
        /\ AtStart =>
              \A params \in ParamLists, name \in Names :
                  LET r == add_call_parens(CompletionItem_new("Reference", name), ctx,
                                           name, params)
                  IN  /\ r.label = ExpectedCallLabel(name, params)
                      /\ r.insert_text = Some(ExpectedCallSnippet(ctx, name, params))
                      /\ r.insert_text_format = "Snippet"
        /\ \A i \in Calls({"add_function"}) :
              LET name == CallName(offered[i])
                  params == Named(ExpectedParams(offered[i].func[1]))
              IN  /\ ItemOf(i).label = ExpectedCallLabel(name, params)
                  /\ ItemOf(i).insert = ExpectedCallSnippet(ctx, name, params)
        /\ \A i \in Calls({"add_enum_variant", "add_qualified_enum_variant"}) :
              offered[i].variant[1].kind = "Tuple" =>
                  LET name == IF offered[i].path # None THEN offered[i].path[1].text
                              ELSE offered[i].variant[1].name
                      params == Anonymous(Len(offered[i].variant[1].fields))
                  IN  /\ ItemOf(i).label = ExpectedCallLabel(name, params)
                      /\ ItemOf(i).insert = ExpectedCallSnippet(ctx, name, params)

C4_Witness ==
    /\ ~Suppressed(ctx)
    /\ ctx.config.add_call_argument_snippets
    /\ \E i, j \in Calls({"add_function"}) :
          /\ offered[i].func = Some(fn_g)
          /\ ItemOf(i).label = <<"g", "(", Ellipsis, ")">>
          /\ ItemOf(i).insert = <<"g", "(", "$", "{", "1", ":", "f", "o", "o", "}", ",", " ", "$", "{", "2", ":", "b", "a", "r", "}", ",", " ", "$", "{", "3", ":", "h", "o", "_", "g", "e", "_", "}", ")", "$", "0">>
          /\ offered[j].func = Some(fn_f)
          /\ ItemOf(j).label = <<"f", "(", ")">>
          /\ ItemOf(j).insert = <<"f", "(", ")", "$", "0">>

(***************************************************************************)
(* C5: add_function hands the call-parenthesis inserter the signature's    *)
(* parameter names in declaration order, the receiver excluded, each with  *)
(* all its leading underscores removed and nothing else; label, lookup     *)
(* and detail of the function are not affected by the stripping.           *)
(***************************************************************************)
C5_FunctionParams ==
    /\ AtStart => \A func \in Functions : function_params(func) = ExpectedParams(func)
    /\ AtStart => function_params(fn_g) = <<<<"f", "o", "o">>, <<"b", "a", "r">>, <<"h", "o", "_", "g", "e", "_">>>>
    /\ \A i \in Calls({"add_function"}) :
          LET func == offered[i].func[1]
              name == CallName(offered[i])
              item == ItemOf(i)
          IN  /\ item.detail = Some(func.text)
              /\ item.lookup \in {None, Some(name)}
              /\ starts_with(item.label, name)
              /\ (item.insert_text_format = "Snippet"
                    /\ ctx.config.add_call_argument_snippets
                    /\ ExpectedParams(func) # <<>>) =>
                     item.insert = name \o <<"(">> \o ExpectedPlaceholders(ExpectedParams(func))
                                     \o <<")", "$", "0">>

C5_Witness ==
    \E i \in Calls({"add_function"}) :
        /\ offered[i].func = Some(fn_m)
        /\ ItemOf(i).label = <<"_", "m", "(", Ellipsis, ")">>
        /\ ItemOf(i).lookup = Some(<<"_", "m">>)
        /\ ItemOf(i).insert = <<"_", "m", "(", "$", "{", "1", ":", "x", "}", ")", "$", "0">>

(***************************************************************************)
(* C6: the insertion text of a macro item is the bare name when            *)
(* use_item_syntax is present or is_macro_call is true; otherwise, with    *)
(* snippet_cap, the snippet name! + open + $0 + close with the braces of   *)
(* guess_macro_braces(name, docs or ""); otherwise the plain text name!.   *)
(***************************************************************************)
MacroOf(i) ==
    IF offered[i].op = "add_macro" THEN offered[i].mac[1]
    ELSE offered[i].resolution[1].mac[1]

MacroItems ==
    {i \in Calls({"add_macro", "add_resolution"}) :
        \/ offered[i].op = "add_macro"
        \/ offered[i].resolution[1].tag = "MacroDef"}

C6_MacroInsertText ==
    \A i \in MacroItems :
        LET name == offered[i].local_name[1]
            docs == MacroOf(i).docs
            braces == guess_macro_braces(name, IF docs = None THEN <<>> ELSE docs[1])
            item == ItemOf(i)
        IN  IF ctx.use_item_syntax # None \/ ctx.is_macro_call
            THEN item.insert = name /\ item.insert_text_format = "PlainText"
            ELSE IF ctx.config.snippet_cap # None
            THEN /\ item.insert = name \o <<"!">> \o braces.bra \o <<"$", "0">> \o braces.ket
                 /\ item.insert_text_format = "Snippet"
            ELSE item.insert = name \o <<"!">> /\ item.insert_text_format = "PlainText"

C6_Witness ==
    /\ ctx.is_macro_call /\ ctx.use_item_syntax = None
    /\ ctx.config.snippet_cap # None
    /\ \E i \in MacroItems :
          /\ offered[i].op = "add_macro"
          /\ ItemOf(i).insert = s_m

(***************************************************************************)
(* C7 as stated: every item emitted by add_macro has the label `name!`.    *)
(***************************************************************************)
C7_LabelIsNameBang ==
    \A i \in MacroItems : ItemOf(i).label = offered[i].local_name[1] \o <<"!">>

(***************************************************************************)
(* C7 amended: an item emitted by add_macro has the label `name!` when     *)
(* use_item_syntax is present, is_macro_call is true or snippet_cap is     *)
(* absent; with snippet_cap present at a site that is neither an import    *)
(* nor an existing macro call the label is name! + open + ellipsis + close *)
(* with the braces guess_macro_braces gives.                               *)
(***************************************************************************)
C7_MacroLabel ==
    \A i \in MacroItems :
        LET name == offered[i].local_name[1]
            docs == MacroOf(i).docs
            braces == guess_macro_braces(name, IF docs = None THEN <<>> ELSE docs[1])
        IN  ItemOf(i).label =
                IF /\ ctx.config.snippet_cap # None
                   /\ ctx.use_item_syntax = None
                   /\ ~ctx.is_macro_call
                THEN name \o <<"!">> \o braces.bra \o <<Ellipsis>> \o braces.ket
                ELSE name \o <<"!">>

C7_Witness ==
    /\ ctx.config.snippet_cap # None
    /\ ctx.use_item_syntax = None
    /\ ~ctx.is_macro_call
    /\ \E i \in MacroItems :
          /\ MacroOf(i) = mac_curly
          /\ ItemOf(i).label = <<"m", "!", " ", "{", Ellipsis, "}">>

(***************************************************************************)
(* C8: the item of a qualified enum variant has the unqualified variant    *)
(* name as lookup, for every variant kind and every context.               *)
(***************************************************************************)
C8_QualifiedLookup ==
    \A i \in Calls({"add_qualified_enum_variant"}) :
        ItemOf(i).lookup = Some(offered[i].variant[1].name)

(***************************************************************************)
(* C9: the detail of a tuple or unit variant is the fields' type texts     *)
(* joined by `, ` inside `(` `)`; of a record variant, `name: type` of     *)
(* each field joined by `, ` inside `{ ` ` }`; in declaration order.       *)
(***************************************************************************)
ExpectedDetail(variant) ==
    LET fs == variant.fields
        tuple(i) == fs[i].ty.text
        record(i) == fs[i].name \o <<":", " ">> \o fs[i].ty.text
    IN  IF variant.kind = "Record"
        THEN CASE Len(fs) = 0 -> <<"{", " ">> \o <<" ", "}">>
               [] Len(fs) = 1 -> <<"{", " ">> \o record(1) \o <<" ", "}">>
               [] Len(fs) = 2 -> <<"{", " ">> \o record(1) \o <<",", " ">> \o record(2) \o <<" ", "}">>
               [] Len(fs) = 3 -> <<"{", " ">> \o record(1) \o <<",", " ">> \o record(2) \o <<",", " ">> \o record(3)
                                   \o <<" ", "}">>
        ELSE CASE Len(fs) = 0 -> <<"(", ")">>
               [] Len(fs) = 1 -> <<"(">> \o tuple(1) \o <<")">>
               [] Len(fs) = 2 -> <<"(">> \o tuple(1) \o <<",", " ">> \o tuple(2) \o <<")">>
               [] Len(fs) = 3 -> <<"(">> \o tuple(1) \o <<",", " ">> \o tuple(2) \o <<",", " ">> \o tuple(3)
                                   \o <<")">>

VariantCalls ==
    {i \in Calls({"add_enum_variant", "add_qualified_enum_variant", "add_resolution"}) :
        \/ offered[i].variant # None
        \/ offered[i].op = "add_resolution" /\ offered[i].resolution[1].tag = "EnumVariant"}

VariantOf(i) ==
    IF offered[i].op = "add_resolution" THEN offered[i].resolution[1].variant[1]
    ELSE offered[i].variant[1]

C9_VariantDetail ==
    /\ AtStart =>
          /\ variant_detail(EnumVariant(s_V, "Tuple", <<f_x_i32, f_y_i32>>, FALSE, None))
                = <<"(", "i", "3", "2", ",", " ", "i", "3", "2", ")">>
          /\ variant_detail(EnumVariant(s_V, "Record", <<f_x_i32, f_y_i32>>, FALSE, None))
                = <<"{", " ", "x", ":", " ", "i", "3", "2", ",", " ", "y", ":", " ", "i", "3", "2", " ", "}">>
          /\ variant_detail(var_unit) = <<"(", ")">>
    /\ \A i \in VariantCalls : ItemOf(i).detail = Some(ExpectedDetail(VariantOf(i)))

C9_Witness ==
    \E i, j \in VariantCalls :
        /\ VariantOf(i) = var_record
        /\ ItemOf(i).detail = Some(<<"{", " ", "x", ":", " ", "i", "3", "2", ",", " ", "y", ":", " ", "u", "3", "2", " ", "}">>)
        /\ VariantOf(j) = var_tuple2
        /\ ItemOf(j).detail = Some(<<"(", "i", "3", "2", ",", " ", "u", "3", "2", ")">>)

(***************************************************************************)
(* C10 as stated: add_resolution gives the item label `name<...>`,         *)
(* snippet `name<$0>` and lookup `name` if and only if is_path_type,       *)
(* no type-argument list, add_call_parenthesis, snippet_cap, an ADT or a   *)
(* type alias, and a type parameter without a default; in every other      *)
(* case the item keeps the bare name as label and insertion text and has   *)
(* no lookup.                                                              *)
(***************************************************************************)
AngleCondition(c, resolution) ==
    /\ c.is_path_type
    /\ ~c.has_type_args
    /\ c.config.add_call_parenthesis
    /\ c.config.snippet_cap # None
    /\ resolution.tag \in {"Struct", "Union", "Enum", "TypeAlias"}
    /\ \E k \in 1..Len(resolution.type_params) : ~resolution.type_params[k].has_default

HasAngleForm(item, name) ==
    /\ item.label = name \o <<"<", Ellipsis, ">">>
    /\ item.insert = name \o <<"<", "$", "0", ">">>
    /\ item.insert_text_format = "Snippet"
    /\ item.lookup = Some(name)

HasBareForm(item, name) ==
    /\ item.label = name
    /\ item.insert = name
    /\ item.insert_text_format = "PlainText"
    /\ item.lookup = None

C10_AngleOrBare ==
    \A i \in Calls({"add_resolution"}) :
        LET name == offered[i].local_name[1]
        IN  IF AngleCondition(ctx, offered[i].resolution[1])
            THEN HasAngleForm(ItemOf(i), name)
            ELSE HasBareForm(ItemOf(i), name)

(***************************************************************************)
(* C10 amended: the rewrite to `name<...>` / `name<$0>` / lookup `name`    *)
(* happens if and only if the six conditions hold; in every other case in  *)
(* which the resolution is not a function, an enum variant or a macro      *)
(* (add_resolution hands these to add_function, add_enum_variant and       *)
(* add_macro) the item keeps the bare name as label and insertion text     *)
(* and has no lookup.                                                      *)
(***************************************************************************)
C10_AngleBrackets ==
    \A i \in Calls({"add_resolution"}) :
        LET name == offered[i].local_name[1]
            resolution == offered[i].resolution[1]
        IN  /\ HasAngleForm(ItemOf(i), name) <=> AngleCondition(ctx, resolution)
            /\ (~AngleCondition(ctx, resolution)
                  /\ resolution.tag \notin {"Function", "EnumVariant", "MacroDef"}) =>
                   HasBareForm(ItemOf(i), name)

C10_Witness ==
    /\ ctx.is_path_type /\ ~ctx.has_type_args
    /\ \E i, j \in Calls({"add_resolution"}) :
          /\ offered[i].resolution[1] = Generic("Struct", <<NoDefault>>)
          /\ ItemOf(i).label = <<"V", "<", Ellipsis, ">">>
          /\ ItemOf(i).insert = <<"V", "<", "$", "0", ">">>
          /\ offered[j].resolution[1] = Generic("Struct", <<WithDefault>>)
          /\ ItemOf(j).label = s_V
          /\ ItemOf(j).insert = s_V

(***************************************************************************)
(* C11: a candidate that cannot be rendered (add_macro on a proc-macro or  *)
(* without a name, add_const / add_type_alias on an item without a name)   *)
(* leaves the accumulator as it was, and the candidates offered after it   *)
(* are rendered as if it had never been offered; every other call appends  *)
(* exactly one item.                                                       *)
(***************************************************************************)
(* The call made again on the accumulator acc. *)
Apply(acc, call) ==
    CASE call.op = "add_field" -> add_field(acc, ctx, call.field[1], call.ty[1])
      [] call.op = "add_tuple_field" -> add_tuple_field(acc, ctx, call.index[1], call.ty[1])
      [] call.op = "add_resolution" ->
            add_resolution(acc, ctx, call.local_name[1], call.resolution[1])
      [] call.op = "add_macro" -> add_macro(acc, ctx, call.local_name, call.mac[1])
      [] call.op = "add_function" -> add_function(acc, ctx, call.func[1], call.local_name)
      [] call.op = "add_const" -> add_const(acc, ctx, call.item[1])
      [] call.op = "add_type_alias" -> add_type_alias(acc, ctx, call.item[1])
      [] call.op = "add_qualified_enum_variant" ->
            add_qualified_enum_variant(acc, ctx, call.variant[1], call.path[1])
      [] call.op = "add_enum_variant" ->
            add_enum_variant(acc, ctx, call.variant[1], call.local_name)

(* The calls made one after the other, from the accumulator acc. *)
RECURSIVE Replay(_, _)
Replay(acc, calls) ==
    IF calls = <<>> THEN acc ELSE Replay(Apply(acc, Head(calls)), Tail(calls))

WasEmitted(call) == call.emitted

Unrenderable(call) ==
    \/ call.op = "add_macro" /\ (call.mac[1].is_proc_macro \/ call.local_name = None)
    \/ call.op = "add_resolution"
         /\ call.resolution[1].tag = "MacroDef"
         /\ call.resolution[1].mac[1].is_proc_macro
    \/ call.op \in {"add_const", "add_type_alias"} /\ call.item[1].name = None

C11_OmittedWithoutEffect ==
    /\ \A i \in 1..Len(offered) : offered[i].emitted <=> ~Unrenderable(offered[i])
    /\ Len(buf) = Cardinality({i \in 1..Len(offered) : ~Unrenderable(offered[i])})
    /\ buf = Replay(<<>>, SelectSeq(offered, WasEmitted))

C11_Witness ==
    /\ Len(offered) = 2
    /\ offered[1].op = "add_macro" /\ offered[1].mac = Some(mac_proc)
    /\ offered[2].op = "add_const" /\ offered[2].item = Some(const_x)
    /\ Len(buf) = 1
    /\ buf[1].label = s_x
    /\ buf = add_const(<<>>, ctx, const_x)

(***************************************************************************)
(* C12: the accumulator is append-only and order-preserving: every         *)
(* operation leaves the items emitted before it unchanged and in place,    *)
(* adds at most one item, at the end, and that item is the rendering of    *)
(* the candidate just offered; nothing is removed, reordered or sorted.    *)
(***************************************************************************)
C12_Step ==
    /\ Len(buf') \in {Len(buf), Len(buf) + 1}
    /\ \A k \in 1..Len(buf) : buf'[k] = buf[k]
    /\ Len(buf') = Len(buf) + 1 =>
          <<buf'[Len(buf')]>> = Apply(<<>>, offered'[Len(offered')])

C12_AppendOnly == [][C12_Step]_vars

(* An item with a score was emitted after an item without one, and stays   *)
(* behind it.                                                              *)
C12_Witness ==
    /\ Len(buf) = 2
    /\ offered[1].op = "add_field" /\ offered[1].field = Some(f_y_u32)
    /\ offered[2].op = "add_field" /\ offered[2].field = Some(f_x_i32)
    /\ buf[1].label = s_y /\ buf[1].score = None
    /\ buf[2].label = s_x /\ buf[2].score = Some("TypeAndNameMatch")

(***************************************************************************)
(* C13: under a context without snippet_cap no item has an insertion text  *)
(* with a cursor or placeholder marker: functions and tuple variants are   *)
(* inserted as the bare name, macros as `name` or `name!`, generic types   *)
(* as the bare name; every snippet item was built with snippet_cap.        *)
(***************************************************************************)
HasMarker(text) == \E k \in 1..Len(text) : text[k] = "$"

AllCalls == Calls({"add_field", "add_tuple_field", "add_resolution", "add_macro",
                   "add_function", "add_const", "add_type_alias",
                   "add_qualified_enum_variant", "add_enum_variant"})

(* The text a call inserts when nothing is added to the name. *)
PlainInsert(call) ==
    CASE call.op = "add_function" -> {CallName(call)}
      [] call.op = "add_macro" -> {call.local_name[1], call.local_name[1] \o <<"!">>}
      [] call.op = "add_qualified_enum_variant" -> {call.path[1].text}
      [] call.op = "add_enum_variant" -> {call.variant[1].name}
      [] call.op = "add_resolution" ->
            IF call.resolution[1].tag = "MacroDef"
            THEN {call.local_name[1], call.local_name[1] \o <<"!">>}
            ELSE {call.local_name[1]}
      [] call.op = "add_field" -> {call.field[1].name}
      [] call.op = "add_tuple_field" -> {usize_to_string(call.index[1])}
      [] call.op \in {"add_const", "add_type_alias"} -> {call.item[1].name[1]}

C13_NoSnippetWithoutCap ==
    /\ \A k \in 1..Len(buf) :
          buf[k].insert_text_format = "Snippet" => ctx.config.snippet_cap # None
    /\ ctx.config.snippet_cap = None =>
          \A i \in AllCalls :
              /\ ItemOf(i).insert_text_format = "PlainText"
              /\ ~HasMarker(ItemOf(i).insert)
              /\ ItemOf(i).insert \in PlainInsert(offered[i])

C13_Witness ==
    /\ ctx.config.snippet_cap = None
    /\ ctx.config.add_call_parenthesis
    /\ ctx.use_item_syntax = None /\ ~ctx.is_call /\ ~ctx.is_macro_call
    /\ \E i \in Calls({"add_function"}) :
          offered[i].func = Some(fn_g) /\ ItemOf(i).insert = s_g

(***************************************************************************)
(* Inputs of guess_macro_braces: macro names with documentation texts.     *)
(***************************************************************************)
GuessInputs ==
    {[name |-> s_m, docs |-> <<"m", "!", "(", ")", " ", "m", "!", "[", "]">>],
     [name |-> s_m, docs |-> <<"m", "!", "{", "}", " ", "m", "!", "[", "]">>],
     [name |-> s_m, docs |-> <<"m", "!", "{", "}", " ", "m", "!", "(", ")">>],
     [name |-> s_m, docs |-> <<"m", "!", "{", "}", " ", "m", "!", "[", "]", " ", "m", "!", "(", ")">>],
     [name |-> s_m, docs |-> <<"m", "!", "{", "}", " ", "m", "!", "{", "}", " ", "m", "!", "(", ")">>],
     [name |-> s_m, docs |-> <<"m", "!", "[", "]", " ", "m", "!", "[", "]", " ", "m", "!", "(", ")">>],
     [name |-> s_m, docs |-> <<"m", "!", "(", ")", " ", "m", "!", "(", ")", " ", "m", "!", "{", "}">>],
     [name |-> s_m, docs |-> <<>>],
     [name |-> s_m, docs |-> <<"d", "o", "c">>],
     [name |-> s_m, docs |-> <<"m", "!", " ", "{", "}">>],
     [name |-> s_m, docs |-> <<"x", "m", "!", "(", " ", "m", "_", "l", "o", "n", "g", "!", "(">>],
     [name |-> s_m, docs |-> <<"m", "!", " ", " ", "(">>],
     [name |-> s_m, docs |-> <<"m", "!", "x", "(">>],
     [name |-> s_m, docs |-> <<"m", "!">>],
     [name |-> s_m, docs |-> <<"_", "m", "!", "{">>],
     [name |-> s_m, docs |-> <<"1", "m", "!", "[">>],
     [name |-> s_m, docs |-> <<".", "m", "!", "[">>],
     [name |-> s_m, docs |-> <<"m", " ", "!", "(">>],
     [name |-> <<"a", "a">>, docs |-> <<"a", "a", "a", "!", "(">>],
     [name |-> s_m, docs |-> <<"m", "!", "\n", "\t", "[">>]}

Curly == [bra |-> <<" ", "{">>, ket |-> <<"}">>]

Square == [bra |-> <<"[">>, ket |-> <<"]">>]

Round == [bra |-> <<"(">>, ket |-> <<")">>]

(* The style with the most votes; among equals the later of curly, square, *)
(* round.                                                                  *)
ExpectedBraces(votes) ==
    IF votes[3] >= votes[1] /\ votes[3] >= votes[2] THEN Round
    ELSE IF votes[2] >= votes[1] THEN Square
    ELSE Curly

MacroDocs(i) == IF MacroOf(i).docs = None THEN <<>> ELSE MacroOf(i).docs[1]

(* The braces in the snippet `name!` + open + `$0` + close of a macro item. *)
SnippetBraces(i) ==
    {b \in {Curly, Square, Round} :
        ItemOf(i).insert = offered[i].local_name[1] \o <<"!">> \o b.bra \o <<"$", "0">> \o b.ket}

(***************************************************************************)
(* C14: guess_macro_braces returns the style with the highest vote count;  *)
(* among styles sharing the highest count the last of curly, square,       *)
(* round; curly is (" {", "}"), square ("[", "]"), round ("(", ")"); docs  *)
(* with one `m!()` and one `m![]` give round.                              *)
(***************************************************************************)
C14_BracesByVotes ==
    /\ AtStart =>
          /\ \A in \in GuessInputs :
                guess_macro_braces(in.name, in.docs)
                    = ExpectedBraces(count_votes(in.name, in.docs))
          /\ guess_macro_braces(s_m, <<"m", "!", "(", ")", " ", "m", "!", "[", "]">>) = Round
          /\ guess_macro_braces(s_m, <<"m", "!", "{", "}", " ", "m", "!", "[", "]">>) = Square
          /\ guess_macro_braces(s_m, <<"m", "!", "{", "}", " ", "m", "!", "{", "}", " ", "m", "!", "(", ")">>) = Curly
    /\ \A i \in MacroItems :
          ItemOf(i).insert_text_format = "Snippet" =>
              SnippetBraces(i) =
                  {ExpectedBraces(count_votes(offered[i].local_name[1], MacroDocs(i)))}

(* `m!(1) m![2] xm!{}`: one vote for square, one for round. *)
C14_Witness ==
    \E i \in MacroItems :
        /\ MacroOf(i) = mac_round
        /\ count_votes(s_m, MacroDocs(i)) = <<0, 1, 1>>
        /\ ItemOf(i).insert = <<"m", "!", "(", "$", "0", ")">>

(* The inputs without brace evidence: all three vote counts are zero. *)
NoEvidence == {in \in GuessInputs : count_votes(in.name, in.docs) = <<0, 0, 0>>}

(* The macro items emitted with snippet support at a site needing the bang *)
(* for a macro without brace evidence.                                     *)
NoEvidenceItems ==
    {i \in MacroItems :
        /\ ctx.config.snippet_cap # None
        /\ ctx.use_item_syntax = None
        /\ ~ctx.is_macro_call
        /\ count_votes(offered[i].local_name[1], MacroDocs(i)) = <<0, 0, 0>>}

(***************************************************************************)
(* C15 as stated: without brace evidence guess_macro_braces returns the    *)
(* curly style and add_macro inserts `name! {$0}`.                         *)
(***************************************************************************)
C15_DefaultCurly ==
    /\ AtStart => \A in \in NoEvidence : guess_macro_braces(in.name, in.docs) = Curly
    /\ \A i \in NoEvidenceItems :
          ItemOf(i).insert = offered[i].local_name[1] \o <<"!", " ", "{", "$", "0", "}">>

(***************************************************************************)
(* C15: without brace evidence (no documentation, or documentation without *)
(* an accepted invocation, so all three vote counts are zero)              *)
(* guess_macro_braces returns the round style, the last of the equal       *)
(* votes, and add_macro with snippet support at a site needing the bang    *)
(* inserts `name!($0)`.                                                    *)
(***************************************************************************)
C15_DefaultRound ==
    /\ AtStart =>
          /\ \A in \in NoEvidence : guess_macro_braces(in.name, in.docs) = Round
          /\ guess_macro_braces(s_m, <<>>) = Round
          /\ guess_macro_braces(s_m, <<"x", "m", "!", "(", " ", "m", "_", "l", "o", "n", "g", "!", "(">>) = Round
    /\ \A i \in NoEvidenceItems :
          /\ ItemOf(i).insert = offered[i].local_name[1] \o <<"!", "(", "$", "0", ")">>
          /\ ItemOf(i).insert_text_format = "Snippet"

C15_Witness ==
    \E i \in NoEvidenceItems :
        /\ offered[i].op = "add_macro"
        /\ MacroOf(i) = mac_plain
        /\ MacroOf(i).docs = None
        /\ ItemOf(i).insert = <<"m", "!", "(", "$", "0", ")">>

(***************************************************************************)
(* The vote counts stated over positions of the documentation: a position  *)
(* is counted when the name stands there, `!` follows it and no identifier *)
(* character precedes it; its vote is the first character after the `!`    *)
(* that is not whitespace.                                                 *)
(***************************************************************************)
IdentifierChars == AsciiAlphanumeric \cup {"_"}

Counted(name, docs) ==
    {p \in 1..Len(docs) :
        /\ p + Len(name) <= Len(docs)
        /\ SubSeq(docs, p, p + Len(name) - 1) = name
        /\ docs[p + Len(name)] = "!"
        /\ (p = 1 \/ docs[p - 1] \notin IdentifierChars)}

AfterBang(name, docs, p) ==
    LET rest == {q \in (p + Len(name) + 1)..Len(docs) : docs[q] \notin Whitespace}
    IN  IF rest = {} THEN "end of text"
        ELSE docs[CHOOSE q \in rest : \A r \in rest : q <= r]

ExpectedVotes(name, docs) ==
    [k \in 1..3 |->
        Cardinality({p \in Counted(name, docs) :
                        AfterBang(name, docs, p) = <<"{", "[", "(">>[k]})]

VoteInputs ==
    GuessInputs \cup
        {[name |-> <<"a", "a">>, docs |-> <<"a", "a", "!", "(", " ", "a", "a", "a", "a", "!", "[">>],
         [name |-> <<"a", "a">>, docs |-> <<"a", "a", "a", "!", "{", " ", "(", "a", "a", "!", "{">>],
         [name |-> s_m, docs |-> <<"m", "!", "m", "!", "{", "m", "!", "[", " ", "m", "!", "(", ")", " ", "m", "!", " ", "<", " ", "m", "!">>]}

(***************************************************************************)
(* C16: guess_macro_braces counts an occurrence of the macro name iff `!`  *)
(* comes right after it and no underscore, ASCII letter or digit right     *)
(* before it; it then skips the whitespace after the `!` and votes curly,  *)
(* square or round for `{`, `[` or `(`, and nothing for another character  *)
(* or the end of the text.  Docs with only `m! {}` give curly; `xm!(` and  *)
(* `m_long!(` cast no vote for `m`.                                        *)
(***************************************************************************)
C16_CountedOccurrences ==
    /\ AtStart =>
          /\ \A in \in VoteInputs :
                count_votes(in.name, in.docs) = ExpectedVotes(in.name, in.docs)
          /\ count_votes(s_m, <<"m", "!", " ", "{", "}">>) = <<1, 0, 0>>
          /\ guess_macro_braces(s_m, <<"m", "!", " ", "{", "}">>) = Curly
          /\ count_votes(s_m, <<"x", "m", "!", "(", " ", "m", "_", "l", "o", "n", "g", "!", "(">>) = <<0, 0, 0>>
          /\ count_votes(s_m, <<"m", "!", "x", "(">>) = <<0, 0, 0>>
          /\ count_votes(s_m, <<"m", "!">>) = <<0, 0, 0>>
          /\ count_votes(s_m, <<".", "m", "!", "[">>) = <<0, 1, 0>>
    /\ \A i \in MacroItems :
          ItemOf(i).insert_text_format = "Snippet" =>
              SnippetBraces(i) =
                  {ExpectedBraces(ExpectedVotes(offered[i].local_name[1], MacroDocs(i)))}

(* `m! {} m_m![]`: the first occurrence votes curly, the one after the     *)
(* underscore is not counted.                                              *)
C16_Witness ==
    \E i \in MacroItems :
        /\ MacroOf(i) = mac_curly
        /\ Counted(s_m, MacroDocs(i)) = {1}
        /\ ItemOf(i).insert = <<"m", "!", " ", "{", "$", "0", "}">>

(* The site is a record field initializer whose field resolves, inside the *)
(* argument list of a call.                                                *)
ResolvedFieldInCall ==
    /\ ctx.record_field_syntax # None
    /\ ctx.record_field_syntax[1].resolve_record_field # None
    /\ ctx.active_parameter # None

(* The declared name and type text of the record field being initialized. *)
DeclaredField ==
    LET field == ctx.record_field_syntax[1].resolve_record_field[1]
    IN  [name |-> field.name, ty |-> field.ty.text]

(***************************************************************************)
(* C17: at a resolvable record field initializer that is also inside an    *)
(* active call parameter, compute_score compares the candidate with the    *)
(* record field's declared name and type only; a candidate with the type   *)
(* of the active parameter but not of the record field gets no score.      *)
(***************************************************************************)
C17_RecordFieldFirst ==
    ResolvedFieldInCall =>
        /\ AtStart =>
              \A ty \in Types, n \in Names :
                  /\ compute_score(ctx, ty, n) = ExpectedScore(DeclaredField, ty.text, n)
                  /\ (ty.text = ctx.active_parameter[1].ty /\ ty.text # DeclaredField.ty)
                         => compute_score(ctx, ty, n) = None
        /\ \A i \in Calls({"add_field"}) :
              /\ ItemOf(i).score =
                    ExpectedScore(DeclaredField, offered[i].ty[1].text,
                                  offered[i].field[1].name)
              /\ offered[i].ty[1].text # DeclaredField.ty => ItemOf(i).score = None

(* The field x: i32 equals the active parameter and gets no score; the     *)
(* field y: u32 equals the record field.                                   *)
C17_Witness ==
    /\ ResolvedFieldInCall
    /\ ctx.active_parameter[1].ty # DeclaredField.ty
    /\ \E i, j \in Calls({"add_field"}) :
          /\ offered[i].field[1].name = ctx.active_parameter[1].name
          /\ offered[i].ty[1].text = ctx.active_parameter[1].ty
          /\ ItemOf(i).score = None
          /\ offered[j].field = Some(f_y_u32)
          /\ ItemOf(j).score = Some("TypeAndNameMatch")

(* The site is a record field initializer whose field does not resolve. *)
UnresolvedField ==
    /\ ctx.record_field_syntax # None
    /\ ctx.record_field_syntax[1].resolve_record_field = None

(***************************************************************************)
(* C20: at a record field initializer whose field cannot be resolved       *)
(* compute_score is absent for every candidate; it does not fall back to   *)
(* the active call parameter, even for a candidate whose type text and     *)
(* name equal the parameter's.                                             *)
(***************************************************************************)
C20_UnresolvedFieldNoScore ==
    UnresolvedField =>
        /\ AtStart => \A ty \in Types, n \in Names : compute_score(ctx, ty, n) = None
        /\ \A i \in Calls({"add_field"}) : ItemOf(i).score = None

(* The field x: i32 offered where the active parameter is x: i32. *)
C20_Witness ==
    /\ UnresolvedField
    /\ ctx.active_parameter # None
    /\ \E i \in Calls({"add_field"}) :
          /\ offered[i].field[1].name = ctx.active_parameter[1].name
          /\ offered[i].ty[1].text = ctx.active_parameter[1].ty
          /\ ItemOf(i).score = None

(* The possibly qualified name a variant was asked to be rendered under. *)
VariantName(i) ==
    IF offered[i].path # None THEN offered[i].path[1].text
    ELSE IF offered[i].local_name # None THEN offered[i].local_name[1]
    ELSE VariantOf(i).name

(***************************************************************************)
(* C18: of the enum variants only tuple variants get call parentheses.  An *)
(* item of a unit or record variant has the (possibly qualified) name as   *)
(* label and insertion text and no trigger_call_info, in every context.  A *)
(* tuple variant goes to add_call_parens with Anonymous(field count): when *)
(* not suppressed it inserts `name($0)` with fields and `name()$0` without *)
(* fields, never a placeholder per argument.                               *)
(***************************************************************************)
C18_ParensOnlyForTupleVariants ==
    \A i \in VariantCalls :
        LET name == VariantName(i)
            variant == VariantOf(i)
            item == ItemOf(i)
        IN  IF variant.kind \in {"Unit", "Record"} \/ Suppressed(ctx)
            THEN /\ item.label = name
                 /\ item.insert = name
                 /\ item.insert_text_format = "PlainText"
                 /\ ~item.trigger_call_info
            ELSE /\ item.insert_text_format = "Snippet"
                 /\ item.insert =
                       IF Len(variant.fields) = 0 THEN name \o <<"(", ")", "$", "0">> ELSE name \o <<"(", "$", "0", ")">>
                 /\ item = build(add_call_parens(
                               [CompletionItem_new("Reference", name) EXCEPT
                                    !.kind = Some("EnumVariant"),
                                    !.detail = item.detail,
                                    !.documentation = item.documentation,
                                    !.deprecated = item.deprecated,
                                    !.lookup = IF offered[i].path # None
                                               THEN Some(variant.name) ELSE None],
                               ctx, name, Anonymous(Len(variant.fields))))

(* With argument snippets enabled and nothing suppressed: the record       *)
(* variant stays bare, the tuple variant with two fields inserts `V($0)`.  *)
C18_Witness ==
    /\ ~Suppressed(ctx)
    /\ ctx.config.add_call_argument_snippets
    /\ \E i, j \in VariantCalls :
          /\ VariantOf(i) = var_record
          /\ ItemOf(i).insert = s_V
          /\ ~ItemOf(i).trigger_call_info
          /\ VariantOf(j) = var_tuple2
          /\ offered[j].op = "add_enum_variant"
          /\ ItemOf(j).insert = <<"V", "(", "$", "0", ")">>

(* The function behind a call of add_function or of add_resolution with a  *)
(* function, if any.                                                       *)
FunctionOf(i) ==
    IF offered[i].op = "add_function" THEN offered[i].func
    ELSE IF offered[i].op = "add_resolution" /\ offered[i].resolution[1].tag = "Function"
    THEN offered[i].resolution[1].func
    ELSE None

(* The name the item of a call is rendered under when it is a function, a  *)
(* method or an enum variant.                                              *)
CallableName(i) ==
    IF i \in VariantCalls THEN VariantName(i)
    ELSE IF offered[i].local_name # None THEN offered[i].local_name[1]
    ELSE FunctionOf(i)[1].name

(* The call is for a function, method or tuple variant whose parameter     *)
(* list, the receiver left out, is not empty.                              *)
WithParameters(i) ==
    \/ /\ FunctionOf(i) # None
       /\ Len(FunctionOf(i)[1].parameter_names)
             > (IF FunctionOf(i)[1].has_self_param THEN 1 ELSE 0)
    \/ /\ i \in VariantCalls
       /\ VariantOf(i).kind = "Tuple"
       /\ Len(VariantOf(i).fields) > 0

EndsWith(text, suffix) ==
    /\ Len(text) >= Len(suffix)
    /\ SubSeq(text, Len(text) - Len(suffix) + 1, Len(text)) = suffix

(***************************************************************************)
(* C19: an item of the accumulator has trigger_call_info set if and only   *)
(* if it is a function, method or tuple variant that got call parentheses  *)
(* and has a non-empty parameter list (receiver excluded).  So an item     *)
(* with trigger_call_info has a label ending in `(...)` with the ellipsis  *)
(* character, snippet_cap is present and add_call_parenthesis is true; no  *)
(* item labelled `name()` or with the bare name has it.                    *)
(***************************************************************************)
C19_TriggerCallInfo ==
    /\ Len(buf) = Cardinality(AllCalls)
    /\ \A i \in AllCalls :
          LET item == ItemOf(i)
          IN  /\ item.trigger_call_info <=> (WithParameters(i) /\ ~Suppressed(ctx))
              /\ item.trigger_call_info =>
                    /\ item.label = CallableName(i) \o <<"(", Ellipsis, ")">>
                    /\ item.insert_text_format = "Snippet"
                    /\ ctx.config.snippet_cap # None
                    /\ ctx.config.add_call_parenthesis
              /\ EndsWith(item.label, <<"(", ")">>) => ~item.trigger_call_info
              /\ ~EndsWith(item.label, <<"(", Ellipsis, ")">>) => ~item.trigger_call_info

(* f() without parameters next to g(...) with three. *)
C19_Witness ==
    \E i, j \in Calls({"add_function"}) :
        /\ offered[i].func = Some(fn_f)
        /\ ItemOf(i).label = <<"f", "(", ")">>
        /\ ~ItemOf(i).trigger_call_info
        /\ offered[j].func = Some(fn_g)
        /\ ItemOf(j).label = <<"g", "(", Ellipsis, ")">>
        /\ ItemOf(j).trigger_call_info

====
